---- MODULE Spec2Model ----
(***************************************************************************)
(* Model of the bouncing-logo frame generator, dvd.py.                     *)
(*                                                                         *)
(* Boxes are objects: the heap maps a reference to the four coordinates of *)
(* an AbsoluteBoundingBox, __add__ allocates a new object and __iadd__     *)
(* changes one in place.  Functions passed as values (the move functions   *)
(* and the boundary checks) are modelled by their names and applied        *)
(* through the CallMove and CallPasses dispatchers.                        *)
(* Dictionaries (keywords, the dict velocity_update returns, the swaps     *)
(* tables) are functions whose domain is the set of keys present.          *)
(*                                                                         *)
(* The canvas of dvd.py is 3840 x 2160; the model runs the same code on    *)
(* small canvases, sprites and velocities, chosen in Init.                 *)
(*                                                                         *)
(* The older variant, main.py, is modelled by MainPySpec on variables of    *)
(* its own (its definitions are prefixed main_py_ where dvd.py has a       *)
(* function of the same name).                                             *)
(***************************************************************************)
EXTENDS Integers, Sequences, FiniteSets, TLC

VARIABLES
    args,                    \* parsed command line and the logo's size
    heap,                    \* reference -> AbsoluteBoundingBox object
    keywords,                \* main: the keywords dict
    current_image_location,  \* main: the local of that name (a reference)
    logo_image,              \* main: orientation of the sprite held in logo_image
    index,                   \* main: number of loop iterations completed
    pc,                      \* main: "draw", "update", "stitch" or "done"
    saved,                   \* frames written to the output directory, in order
    stitched,                \* number of runs of ./stitch.sh
    swaps,                   \* the module-level swaps tables
    call,                    \* history: arguments of the last velocity_update call
    flips,                   \* history: per call, whether it returned flip=True
    history,                 \* history: per call, tentative box and directions
    main_py_resolution,      \* main.py: the canvas size (its local resolution)
    paste_x,                 \* main.py: where the logo is pasted
    paste_y,
    current_move_function,   \* main.py: the move function in use
    current_boundary_function, \* main.py: the pair of boundary tests in use
    move_functions,          \* main.py: position of the cycle of move functions
    passes_boundary_functions, \* main.py: position of the cycle of test pairs
    look                     \* history: the last look-ahead of main.py

\* The variables of main.py's loop.
mainPyVars == <<main_py_resolution, paste_x, paste_y, current_move_function,
                current_boundary_function, move_functions,
                passes_boundary_functions, look>>

\* The variables of dvd.py alone.
dvdVars == <<heap, keywords, current_image_location, logo_image, stitched,
             swaps, call, flips, history>>

vars == <<args, heap, keywords, current_image_location, logo_image, index, pc,
          saved, stitched, swaps, call, flips, history, main_py_resolution,
          paste_x, paste_y, current_move_function, current_boundary_function,
          move_functions, passes_boundary_functions, look>>

\* Bounds of the model.
MaxWidth == 6
MaxHeight == 5
MaxVelocity == 3
MaxDuration == 4
MaxFps == 2

----------------------------------------------------------------------------
\* Dictionaries.

\* d | e and d |= e: the keys of e override those of d.
DictMerge(d, e) == e @@ d

\* d without key k (dict.pop's effect on the dict).
DictRemove(d, k) == [key \in (DOMAIN d) \ {k} |-> d[key]]

\* d.pop(k, default)'s value.
DictGet(d, k, default) == IF k \in DOMAIN d THEN d[k] ELSE default

----------------------------------------------------------------------------
\* AbsoluteBoundingBox.

\* A fresh reference: the smallest one not in use.
NewRef(h) == CHOOSE r \in 1..(Cardinality(DOMAIN h) + 1) : r \notin DOMAIN h

from_origin(x, y, width, height) ==
    [left_x |-> x, top_y |-> y, right_x |-> x + width, bottom_y |-> y + height]

\* Mutant of AbsoluteBoundingBox_iadd: the right and bottom edges are not
\* moved with the left and top ones.
AbsoluteBoundingBox_iadd_edges(h, self, delta) ==
    LET b  == h[self]
        b1 == IF delta[1] /= 0 THEN [b EXCEPT !.left_x = @ + delta[1]] ELSE b
        b2 == IF delta[2] /= 0 THEN [b1 EXCEPT !.top_y = @ + delta[2]] ELSE b1
    IN  [heap |-> [h EXCEPT ![self] = b2], ref |-> self]

\* self += delta: changes the object self refers to and returns self.
AbsoluteBoundingBox_iadd(h, self, delta) ==
    LET b  == h[self]
        b1 == IF delta[1] /= 0
              THEN [b EXCEPT !.left_x = @ + delta[1], !.right_x = @ + delta[1]]
              ELSE b
        b2 == IF delta[2] /= 0
              THEN [b1 EXCEPT !.top_y = @ + delta[2], !.bottom_y = @ + delta[2]]
              ELSE b1
    IN  [heap |-> [h EXCEPT ![self] = b2], ref |-> self]

\* Mutant of AbsoluteBoundingBox_add: the sum is computed in place, as += does.
AbsoluteBoundingBox_add_inplace(h, self, delta) ==
    LET b == h[self]
        n == [left_x   |-> b.left_x + delta[1],
              right_x  |-> b.right_x + delta[1],
              top_y    |-> b.top_y + delta[2],
              bottom_y |-> b.bottom_y + delta[2]]
    IN  [heap |-> [h EXCEPT ![self] = n], ref |-> self]

\* self + delta: a new object, self is not changed.
AbsoluteBoundingBox_add(h, self, delta) ==
    LET b == h[self]
        r == NewRef(h)
        n == [left_x   |-> b.left_x + delta[1],
              right_x  |-> b.right_x + delta[1],
              top_y    |-> b.top_y + delta[2],
              bottom_y |-> b.bottom_y + delta[2]]
    IN  [heap |-> (r :> n) @@ h, ref |-> r]

----------------------------------------------------------------------------
\* Move functions and boundary checks.

move_southeast(h, loc, velocity) ==
    AbsoluteBoundingBox_add(h, loc, <<velocity, velocity>>)

move_northeast(h, loc, velocity) ==
    AbsoluteBoundingBox_add(h, loc, <<velocity, -velocity>>)

move_northwest(h, loc, velocity) ==
    LET negative_velocity == -1 * velocity
    IN  AbsoluteBoundingBox_add(h, loc, <<negative_velocity, negative_velocity>>)

move_southwest(h, loc, velocity) ==
    AbsoluteBoundingBox_add(h, loc, <<-velocity, velocity>>)

MoveFunctions ==
    {"move_southeast", "move_northeast", "move_northwest", "move_southwest"}

CallMove(f, h, loc, velocity) ==
    CASE f = "move_southeast" -> move_southeast(h, loc, velocity)
      [] f = "move_northeast" -> move_northeast(h, loc, velocity)
      [] f = "move_northwest" -> move_northwest(h, loc, velocity)
      [] f = "move_southwest" -> move_southwest(h, loc, velocity)

Min(a, b) == IF a < b THEN a ELSE b

passes_north_boundary(image_location, frame_resolution) ==
    IF image_location.top_y < 0 THEN image_location.top_y ELSE 0

passes_west_boundary(image_location, frame_resolution) ==
    IF image_location.left_x < 0 THEN image_location.left_x ELSE 0

\* Mutant of passes_south_boundary: a box that touches the south edge counts
\* as past it.
passes_south_boundary_touch(image_location, frame_resolution) ==
    Min(0, frame_resolution.height - image_location.bottom_y - 1)

passes_south_boundary(image_location, frame_resolution) ==
    Min(0, frame_resolution.height - image_location.bottom_y)

\* Mutant of passes_east_boundary: the right edge is compared with the
\* canvas height.
passes_east_boundary_height(image_location, frame_resolution) ==
    Min(0, frame_resolution.height - image_location.right_x)

passes_east_boundary(image_location, frame_resolution) ==
    Min(0, frame_resolution.width - image_location.right_x)

CallPasses(f, image_location, frame_resolution) ==
    CASE f = "passes_north_boundary" ->
            passes_north_boundary(image_location, frame_resolution)
      [] f = "passes_west_boundary" ->
            passes_west_boundary(image_location, frame_resolution)
      [] f = "passes_south_boundary" ->
            passes_south_boundary(image_location, frame_resolution)
      [] f = "passes_east_boundary" ->
            passes_east_boundary(image_location, frame_resolution)

HORIZONTAL == 0
VERTICAL == 1

\* Mutant of SwapsTable: an entry of the vertical table names a function
\* that is not one of the four diagonal moves.
SwapsTable_axis ==
    (HORIZONTAL :> [move_northeast |-> "move_northwest",
                    move_southeast |-> "move_southwest",
                    move_northwest |-> "move_northeast",
                    move_southwest |-> "move_southeast"])
 @@ (VERTICAL   :> [move_northeast |-> "move_southeast",
                    move_southeast |-> "move_north",
                    move_northwest |-> "move_southwest",
                    move_southwest |-> "move_northwest"])

\* Mutant of SwapsTable: the vertical table reverses both components.
SwapsTable_diagonal ==
    (HORIZONTAL :> [move_northeast |-> "move_northwest",
                    move_southeast |-> "move_southwest",
                    move_northwest |-> "move_northeast",
                    move_southwest |-> "move_southeast"])
 @@ (VERTICAL   :> [move_northeast |-> "move_southwest",
                    move_southeast |-> "move_northwest",
                    move_northwest |-> "move_southeast",
                    move_southwest |-> "move_northeast"])

\* Mutant of SwapsTable: the horizontal table swaps north and south.
SwapsTable_vertical ==
    (HORIZONTAL :> [move_northeast |-> "move_southeast",
                    move_southeast |-> "move_northeast",
                    move_northwest |-> "move_southwest",
                    move_southwest |-> "move_northwest"])
 @@ (VERTICAL   :> [move_northeast |-> "move_southeast",
                    move_southeast |-> "move_northeast",
                    move_northwest |-> "move_southwest",
                    move_southwest |-> "move_northwest"])

SwapsTable ==
    (HORIZONTAL :> [move_northeast |-> "move_northwest",
                    move_southeast |-> "move_southwest",
                    move_northwest |-> "move_northeast",
                    move_southwest |-> "move_southeast"])
 @@ (VERTICAL   :> [move_northeast |-> "move_southeast",
                    move_southeast |-> "move_northeast",
                    move_northwest |-> "move_southwest",
                    move_southwest |-> "move_northwest"])

----------------------------------------------------------------------------
\* Mutant of velocity_update: the reverse_* checks are not replaced by the
\* checks that were current.
velocity_update_noreverse(h, sw, kw) ==
    LET moved == CallMove(kw["next_location_velocity"], h,
                          kw["current_image_location"], kw["velocity"])
        new_location == moved.ref
        h1 == moved.heap
        north_boundary_delta ==
            CallPasses(kw["current_north_south_boundary_crossed"],
                       h1[new_location], kw["frame_resolution"])
        east_boundary_delta ==
            CallPasses(kw["current_east_west_boundary_crossed"],
                       h1[new_location], kw["frame_resolution"])
        new_velocity_keywords == ("current_image_location" :> new_location)
        h2 == AbsoluteBoundingBox_iadd(
                  h1, new_location,
                  <<east_boundary_delta, north_boundary_delta>>).heap
        d1 == IF north_boundary_delta /= 0
              THEN DictMerge(new_velocity_keywords,
                     ("current_north_south_boundary_crossed" :>
                          kw["reverse_north_south_boundary_crossed"]))
              ELSE new_velocity_keywords
        v1 == IF north_boundary_delta /= 0
              THEN sw[VERTICAL][kw["next_location_velocity"]]
              ELSE kw["next_location_velocity"]
        d2 == IF east_boundary_delta /= 0
              THEN DictMerge(d1,
                     ("current_east_west_boundary_crossed" :>
                          kw["reverse_east_west_boundary_crossed"])
                  @@ ("flip" :> TRUE))
              ELSE d1
        v2 == IF east_boundary_delta /= 0
              THEN sw[HORIZONTAL][v1]
              ELSE v1
    IN  IF north_boundary_delta = 0 /\ east_boundary_delta = 0
        THEN [heap |-> h1, ret |-> new_velocity_keywords]
        ELSE [heap |-> h2,
              ret  |-> DictMerge(d2, "next_location_velocity" :> v2)]

\* velocity_update(**kw), run on heap h with the swaps tables sw.
\* The result is the heap after the call and the dict returned.

\* Mutant of velocity_update: the east/west branch is an elif of the
\* north/south branch.
velocity_update_elif(h, sw, kw) ==
    LET moved == CallMove(kw["next_location_velocity"], h,
                          kw["current_image_location"], kw["velocity"])
        new_location == moved.ref
        h1 == moved.heap
        north_boundary_delta ==
            CallPasses(kw["current_north_south_boundary_crossed"],
                       h1[new_location], kw["frame_resolution"])
        east_boundary_delta ==
            CallPasses(kw["current_east_west_boundary_crossed"],
                       h1[new_location], kw["frame_resolution"])
        new_velocity_keywords == ("current_image_location" :> new_location)
        h2 == AbsoluteBoundingBox_iadd(
                  h1, new_location,
                  <<east_boundary_delta, north_boundary_delta>>).heap
        d1 == IF north_boundary_delta /= 0
              THEN DictMerge(new_velocity_keywords,
                     ("current_north_south_boundary_crossed" :>
                          kw["reverse_north_south_boundary_crossed"])
                  @@ ("reverse_north_south_boundary_crossed" :>
                          kw["current_north_south_boundary_crossed"]))
              ELSE new_velocity_keywords
        v1 == IF north_boundary_delta /= 0
              THEN sw[VERTICAL][kw["next_location_velocity"]]
              ELSE kw["next_location_velocity"]
        d2 == IF north_boundary_delta = 0 /\ east_boundary_delta /= 0
              THEN DictMerge(d1,
                     ("current_east_west_boundary_crossed" :>
                          kw["reverse_east_west_boundary_crossed"])
                  @@ ("reverse_east_west_boundary_crossed" :>
                          kw["current_east_west_boundary_crossed"])
                  @@ ("flip" :> TRUE))
              ELSE d1
        v2 == IF north_boundary_delta = 0 /\ east_boundary_delta /= 0
              THEN sw[HORIZONTAL][v1]
              ELSE v1
    IN  IF north_boundary_delta = 0 /\ east_boundary_delta = 0
        THEN [heap |-> h1, ret |-> new_velocity_keywords]
        ELSE [heap |-> h2,
              ret  |-> DictMerge(d2, "next_location_velocity" :> v2)]

velocity_update(h, sw, kw) ==
    LET moved == CallMove(kw["next_location_velocity"], h,
                          kw["current_image_location"], kw["velocity"])
        new_location == moved.ref
        h1 == moved.heap
        north_boundary_delta ==
            CallPasses(kw["current_north_south_boundary_crossed"],
                       h1[new_location], kw["frame_resolution"])
        east_boundary_delta ==
            CallPasses(kw["current_east_west_boundary_crossed"],
                       h1[new_location], kw["frame_resolution"])
        new_velocity_keywords == ("current_image_location" :> new_location)
        h2 == AbsoluteBoundingBox_iadd(
                  h1, new_location,
                  <<east_boundary_delta, north_boundary_delta>>).heap
        d1 == IF north_boundary_delta /= 0
              THEN DictMerge(new_velocity_keywords,
                     ("current_north_south_boundary_crossed" :>
                          kw["reverse_north_south_boundary_crossed"])
                  @@ ("reverse_north_south_boundary_crossed" :>
                          kw["current_north_south_boundary_crossed"]))
              ELSE new_velocity_keywords
        v1 == IF north_boundary_delta /= 0
              THEN sw[VERTICAL][kw["next_location_velocity"]]
              ELSE kw["next_location_velocity"]
        d2 == IF east_boundary_delta /= 0
              THEN DictMerge(d1,
                     ("current_east_west_boundary_crossed" :>
                          kw["reverse_east_west_boundary_crossed"])
                  @@ ("reverse_east_west_boundary_crossed" :>
                          kw["current_east_west_boundary_crossed"])
                  @@ ("flip" :> TRUE))
              ELSE d1
        v2 == IF east_boundary_delta /= 0
              THEN sw[HORIZONTAL][v1]
              ELSE v1
    IN  IF north_boundary_delta = 0 /\ east_boundary_delta = 0
        THEN [heap |-> h1, ret |-> new_velocity_keywords]
        ELSE [heap |-> h2,
              ret  |-> DictMerge(d2, "next_location_velocity" :> v2)]

----------------------------------------------------------------------------
\* main.

\* Mutant of transpose: the mirrored image is not kept.
transpose_dropped(image) == image

\* Image.transpose(Image.FLIP_LEFT_RIGHT) on the sprite.
transpose(image) == IF image = "loaded" THEN "mirrored" ELSE "loaded"

\* Mutant of frames_to_generate: the sum instead of the product.
frames_to_generate_sum == args.duration + args.fps

frames_to_generate == args.duration * args.fps

\* Objects no variable refers to are freed.
Collect(h, live) == [r \in (DOMAIN h) \cap live |-> h[r]]

\* Mutant of InitialKeywords: the loop starts with flip=False.
InitialKeywords_noflip(velocity, resolution, location) ==
       ("flip" :> FALSE)
    @@ ("next_location_velocity" :> "move_southeast")
    @@ ("velocity" :> velocity)
    @@ ("current_north_south_boundary_crossed" :> "passes_south_boundary")
    @@ ("current_east_west_boundary_crossed" :> "passes_east_boundary")
    @@ ("reverse_north_south_boundary_crossed" :> "passes_north_boundary")
    @@ ("reverse_east_west_boundary_crossed" :> "passes_west_boundary")
    @@ ("frame_resolution" :> resolution)
    @@ ("current_image_location" :> location)

\* The keywords dict built before the loop.
InitialKeywords(velocity, resolution, location) ==
       ("flip" :> TRUE)
    @@ ("next_location_velocity" :> "move_southeast")
    @@ ("velocity" :> velocity)
    @@ ("current_north_south_boundary_crossed" :> "passes_south_boundary")
    @@ ("current_east_west_boundary_crossed" :> "passes_east_boundary")
    @@ ("reverse_north_south_boundary_crossed" :> "passes_north_boundary")
    @@ ("reverse_east_west_boundary_crossed" :> "passes_west_boundary")
    @@ ("frame_resolution" :> resolution)
    @@ ("current_image_location" :> location)

\* The centered box main starts from.
InitialBox(resolution, size) ==
    LET center_x == resolution.width \div 2
        center_y == resolution.height \div 2
    IN  from_origin(center_x - (size.width \div 2),
                    center_y - (size.height \div 2),
                    size.width, size.height)

Resolutions ==
    [width : (MaxWidth - 1)..MaxWidth, height : (MaxHeight - 1)..MaxHeight]

\* main.py is not running.
MainPyIdle ==
    /\ main_py_resolution = [width |-> 0, height |-> 0]
    /\ paste_x = 0
    /\ paste_y = 0
    /\ current_move_function = "move_southeast"
    /\ current_boundary_function = << >>
    /\ move_functions = 0
    /\ passes_boundary_functions = 0
    /\ look = << >>

\* The state when main reaches its loop.
Init ==
    \E resolution \in Resolutions :
    \E width \in 1..(resolution.width + 1) :
    \E height \in 1..(resolution.height + 1) :
    \E velocity \in 1..MaxVelocity :
    \E duration \in 0..MaxDuration :
    \E fps \in 1..MaxFps :
        /\ args = [velocity |-> velocity, duration |-> duration, fps |-> fps,
                   logo_size |-> [width |-> width, height |-> height]]
        /\ heap = (1 :> InitialBox(resolution, args.logo_size))
        /\ current_image_location = 1
        /\ keywords = InitialKeywords(velocity, resolution, 1)
        /\ logo_image = "loaded"
        /\ index = 0
        /\ pc = IF duration * fps > 0 THEN "draw" ELSE "stitch"
        /\ saved = << >>
        /\ stitched = 0
        /\ swaps = SwapsTable
        /\ call = [kw |-> keywords, box |-> heap[1], ret |-> keywords]
        /\ flips = << >>
        /\ history = << >>
        /\ MainPyIdle

\* One loop iteration up to the save of the frame.
DrawFrame ==
    /\ pc = "draw"
    /\ logo_image' = IF DictGet(keywords, "flip", FALSE)
                     THEN transpose(logo_image)
                     ELSE logo_image
    /\ keywords' = DictRemove(keywords, "flip")
    /\ current_image_location' = keywords["current_image_location"]
    /\ heap' = Collect(heap, {keywords["current_image_location"]})
    /\ saved' = Append(saved,
                       [name  |-> index,
                        image |-> logo_image',
                        x     |-> heap[keywords["current_image_location"]].left_x,
                        y     |-> heap[keywords["current_image_location"]].top_y])
    /\ pc' = "update"
    /\ UNCHANGED <<args, index, stitched, swaps, call, flips, history>>
    /\ UNCHANGED mainPyVars

\* keywords |= velocity_update(**keywords), and the loop's advance.
VelocityUpdate ==
    /\ pc = "update"
    /\ "flip" \notin DOMAIN keywords
    /\ LET r == velocity_update(heap, swaps, keywords)
       IN  /\ heap' = r.heap
           /\ keywords' = DictMerge(keywords, r.ret)
           /\ call' = [kw  |-> keywords,
                       box |-> heap[keywords["current_image_location"]],
                       ret |-> r.ret]
           /\ flips' = Append(flips, DictGet(r.ret, "flip", FALSE))
           /\ history' = Append(history,
                  [before    |-> keywords["next_location_velocity"],
                   after     |-> keywords'["next_location_velocity"],
                   tentative |->
                       LET moved == CallMove(keywords["next_location_velocity"],
                                             heap,
                                             keywords["current_image_location"],
                                             keywords["velocity"])
                       IN  moved.heap[moved.ref]])
    /\ index' = index + 1
    /\ pc' = IF index + 1 < frames_to_generate THEN "draw" ELSE "stitch"
    /\ UNCHANGED <<args, current_image_location, logo_image, saved, stitched,
                   swaps>>
    /\ UNCHANGED mainPyVars

\* subprocess.run(['./stitch.sh', ...]).
Stitch ==
    /\ pc = "stitch"
    /\ stitched' = stitched + 1
    /\ pc' = "done"
    /\ UNCHANGED <<args, heap, keywords, current_image_location, logo_image,
                   index, saved, swaps, call, flips, history>>
    /\ UNCHANGED mainPyVars

Next == DrawFrame \/ VelocityUpdate \/ Stitch

Spec == Init /\ [][Next]_vars

\* main is one synchronous loop: a step that can be taken is taken.
FairSpec == Spec /\ WF_vars(Next)

----------------------------------------------------------------------------
\* velocity_update on its own: one call from every in-bounds box, in every
\* direction, with the boundary checks main pairs with that direction.

HeadsEast(move) == move \in {"move_southeast", "move_northeast"}
HeadsSouth(move) == move \in {"move_southeast", "move_southwest"}

KeywordsFor(move, velocity, resolution, location) ==
       ("next_location_velocity" :> move)
    @@ ("velocity" :> velocity)
    @@ ("current_north_south_boundary_crossed" :>
            IF HeadsSouth(move) THEN "passes_south_boundary"
                                ELSE "passes_north_boundary")
    @@ ("current_east_west_boundary_crossed" :>
            IF HeadsEast(move) THEN "passes_east_boundary"
                               ELSE "passes_west_boundary")
    @@ ("reverse_north_south_boundary_crossed" :>
            IF HeadsSouth(move) THEN "passes_north_boundary"
                                ELSE "passes_south_boundary")
    @@ ("reverse_east_west_boundary_crossed" :>
            IF HeadsEast(move) THEN "passes_west_boundary"
                               ELSE "passes_east_boundary")
    @@ ("frame_resolution" :> resolution)
    @@ ("current_image_location" :> location)

StepInit ==
    \E resolution \in Resolutions :
    \E width \in 1..resolution.width :
    \E height \in 1..resolution.height :
    \E x \in 0..(resolution.width - width) :
    \E y \in 0..(resolution.height - height) :
    \E velocity \in 1..MaxVelocity :
    \E move \in MoveFunctions :
        /\ args = [velocity |-> velocity, duration |-> 1, fps |-> 1,
                   logo_size |-> [width |-> width, height |-> height]]
        /\ heap = (1 :> from_origin(x, y, width, height))
        /\ current_image_location = 1
        /\ keywords = KeywordsFor(move, velocity, resolution, 1)
        /\ logo_image = IF HeadsEast(move) THEN "mirrored" ELSE "loaded"
        /\ index = 0
        /\ pc = "update"
        /\ saved = << >>
        /\ stitched = 0
        /\ swaps = SwapsTable
        /\ call = [kw |-> keywords, box |-> heap[1], ret |-> keywords]
        /\ flips = << >>
        /\ history = << >>
        /\ MainPyIdle

StepNext == VelocityUpdate

StepSpec == StepInit /\ [][StepNext]_vars

----------------------------------------------------------------------------
\* main.py.

main_py_move_southeast(x, y, velocity) == <<x + velocity, y + velocity>>

main_py_move_northeast(x, y, velocity) == <<x + velocity, y - velocity>>

main_py_move_northwest(x, y, velocity) == <<x - velocity, y - velocity>>

main_py_move_southwest(x, y, velocity) == <<x - velocity, y + velocity>>

main_py_CallMove(f, x, y, velocity) ==
    CASE f = "move_southeast" -> main_py_move_southeast(x, y, velocity)
      [] f = "move_northeast" -> main_py_move_northeast(x, y, velocity)
      [] f = "move_northwest" -> main_py_move_northwest(x, y, velocity)
      [] f = "move_southwest" -> main_py_move_southwest(x, y, velocity)

main_py_passes_north_boundary(top_x, top_y, bottom_x, bottom_y, width, height, velocity) ==
    top_y - velocity < 0

main_py_passes_west_boundary(top_x, top_y, bottom_x, bottom_y, width, height, velocity) ==
    top_x - velocity < 0

main_py_passes_south_boundary(top_x, top_y, bottom_x, bottom_y, width, height, velocity) ==
    bottom_x + velocity > width

main_py_passes_east_boundary(top_x, top_y, bottom_x, bottom_y, width, height, velocity) ==
    bottom_y + velocity > height

main_py_CallPasses(f, top_x, top_y, bottom_x, bottom_y, width, height, velocity) ==
    CASE f = "passes_north_boundary" ->
            main_py_passes_north_boundary(top_x, top_y, bottom_x, bottom_y,
                                          width, height, velocity)
      [] f = "passes_west_boundary" ->
            main_py_passes_west_boundary(top_x, top_y, bottom_x, bottom_y,
                                         width, height, velocity)
      [] f = "passes_south_boundary" ->
            main_py_passes_south_boundary(top_x, top_y, bottom_x, bottom_y,
                                          width, height, velocity)
      [] f = "passes_east_boundary" ->
            main_py_passes_east_boundary(top_x, top_y, bottom_x, bottom_y,
                                         width, height, velocity)

\* The lists the two module-level itertools.cycle iterators run over.
MoveFunctionsList ==
    <<"move_southeast", "move_northeast", "move_northwest", "move_southwest">>

PassesBoundaryFunctionsList ==
    << <<"passes_south_boundary", "passes_east_boundary">>,
       <<"passes_north_boundary", "passes_east_boundary">>,
       <<"passes_north_boundary", "passes_west_boundary">>,
       <<"passes_south_boundary", "passes_west_boundary">> >>

\* next(cycle): the element at position pos (counted from 0) and the
\* position after it.
CycleNext(list, pos) ==
    [value |-> list[pos + 1], pos |-> (pos + 1) % Len(list)]

\* dvd.py is not running.
DvdIdle ==
    /\ heap = << >>
    /\ keywords = << >>
    /\ current_image_location = 0
    /\ logo_image = "loaded"
    /\ stitched = 0
    /\ swaps = SwapsTable
    /\ call = << >>
    /\ flips = << >>
    /\ history = << >>

\* The state when main of main.py reaches its loop.  Its velocity, frame
\* rate and duration are literals of main; the model runs the loop for
\* small values of them.
MainPyInit ==
    \E res \in Resolutions :
    \E width \in 1..res.width :
    \E height \in 1..res.height :
    \E velocity \in 1..MaxVelocity :
    \E duration \in 1..MaxDuration :
    \E fps \in 1..MaxFps :
        /\ args = [velocity |-> velocity, duration |-> duration, fps |-> fps,
                   logo_size |-> [width |-> width, height |-> height]]
        /\ main_py_resolution = res
        /\ paste_x = (res.width \div 2) - (width \div 2)
        /\ paste_y = (res.height \div 2) - (height \div 2)
        /\ current_move_function = CycleNext(MoveFunctionsList, 0).value
        /\ move_functions = CycleNext(MoveFunctionsList, 0).pos
        /\ current_boundary_function =
               CycleNext(PassesBoundaryFunctionsList, 0).value
        /\ passes_boundary_functions =
               CycleNext(PassesBoundaryFunctionsList, 0).pos
        /\ look = [x |-> paste_x, y |-> paste_y,
                   move |-> current_move_function, fired |-> "none"]
        /\ index = 0
        /\ pc = "render"
        /\ saved = << >>
        /\ DvdIdle

\* One iteration of main.py's loop: paste at (paste_x, paste_y), look ahead,
\* move, save the frame.
MainPyFrame ==
    /\ pc = "render"
    /\ LET width  == args.logo_size.width
           height == args.logo_size.height
           Test(f) == main_py_CallPasses(f, paste_x, paste_y,
                                         paste_x + width, paste_y + height,
                                         main_py_resolution.width,
                                         main_py_resolution.height,
                                         args.velocity)
           fired  == IF Test(current_boundary_function[1])
                     THEN current_boundary_function[1]
                     ELSE IF Test(current_boundary_function[2])
                     THEN current_boundary_function[2]
                     ELSE "none"
           nextb  == CycleNext(PassesBoundaryFunctionsList,
                               passes_boundary_functions)
           nextm  == CycleNext(MoveFunctionsList, move_functions)
       IN  /\ IF fired /= "none"
              THEN /\ current_boundary_function' = nextb.value
                   /\ passes_boundary_functions' = nextb.pos
                   /\ current_move_function' = nextm.value
                   /\ move_functions' = nextm.pos
              ELSE UNCHANGED <<current_boundary_function,
                               passes_boundary_functions,
                               current_move_function, move_functions>>
           /\ look' = [x |-> paste_x, y |-> paste_y,
                       move |-> current_move_function, fired |-> fired]
    /\ LET moved == main_py_CallMove(current_move_function', paste_x, paste_y,
                                     args.velocity)
       IN  /\ paste_x' = moved[1]
           /\ paste_y' = moved[2]
    /\ saved' = Append(saved, [name |-> index, image |-> "loaded",
                               x |-> paste_x, y |-> paste_y])
    /\ index' = index + 1
    /\ pc' = IF index + 1 < frames_to_generate THEN "render" ELSE "done"
    /\ UNCHANGED <<args, main_py_resolution>>
    /\ UNCHANGED dvdVars

MainPyNext == MainPyFrame

MainPySpec == MainPyInit /\ [][MainPyNext]_vars

----------------------------------------------------------------------------
\* Vocabulary of the properties.

Dx(move) == IF HeadsEast(move) THEN 1 ELSE -1
Dy(move) == IF HeadsSouth(move) THEN 1 ELSE -1

\* The box, canvas and direction the keywords hold now.
CurrentBox == heap[keywords["current_image_location"]]
Resolution == keywords["frame_resolution"]
Direction == keywords["next_location_velocity"]

\* A velocity_update call has just returned and its result is merged into
\* the keywords; call holds its arguments.
Called == index > 0 /\ pc \in {"draw", "stitch"}
CallDirection == call.kw["next_location_velocity"]
CallVelocity == call.kw["velocity"]
Returned(key) == key \in DOMAIN call.ret

InBounds(b, res) ==
    /\ b.left_x >= 0
    /\ b.top_y >= 0
    /\ b.right_x <= res.width
    /\ b.bottom_y <= res.height

\* The box of the last call displaced by (dx * velocity, dy * velocity).
Tentative ==
    [left_x   |-> call.box.left_x + Dx(CallDirection) * CallVelocity,
     right_x  |-> call.box.right_x + Dx(CallDirection) * CallVelocity,
     top_y    |-> call.box.top_y + Dy(CallDirection) * CallVelocity,
     bottom_y |-> call.box.bottom_y + Dy(CallDirection) * CallVelocity]

CrossesNorth == Tentative.top_y < 0
CrossesSouth == Tentative.bottom_y > Resolution.height
CrossesWest == Tentative.left_x < 0
CrossesEast == Tentative.right_x > Resolution.width

SpriteSmaller ==
    /\ args.logo_size.width < Resolution.width
    /\ args.logo_size.height < Resolution.height

----------------------------------------------------------------------------
\* C1 (containment, checked under Spec): with a sprite strictly smaller
\* than the canvas and a positive velocity, every frame drawn from the
\* centered start places the sprite inside the canvas: x >= 0, y >= 0,
\* x + sprite width <= canvas width and y + sprite height <= canvas height.
C1_Containment ==
    (SpriteSmaller /\ args.velocity > 0) =>
        \A n \in DOMAIN saved :
            /\ saved[n].x >= 0
            /\ saved[n].y >= 0
            /\ saved[n].x + args.logo_size.width <= Resolution.width
            /\ saved[n].y + args.logo_size.height <= Resolution.height

\* C2 (east/south clamp, checked under StepSpec): a call from an in-bounds
\* box heading east whose tentative right_x exceeds the canvas width returns
\* a box with right_x = canvas width and a direction heading west; a call
\* heading south whose tentative bottom_y exceeds the canvas height returns
\* a box with bottom_y = canvas height and a direction heading north.
C2_EastSouthClamp ==
    (Called /\ InBounds(call.box, Resolution)) =>
        /\ (HeadsEast(CallDirection) /\ CrossesEast) =>
               /\ CurrentBox.right_x = Resolution.width
               /\ Dx(Direction) = -1
        /\ (HeadsSouth(CallDirection) /\ CrossesSouth) =>
               /\ CurrentBox.bottom_y = Resolution.height
               /\ Dy(Direction) = -Dy(CallDirection)

\* C2's case: a southeast call crossing the east and the south edge.
C2_Witness ==
    /\ Called
    /\ InBounds(call.box, Resolution)
    /\ HeadsEast(CallDirection) /\ CrossesEast
    /\ HeadsSouth(CallDirection) /\ CrossesSouth
    /\ CurrentBox.right_x = Resolution.width
    /\ CurrentBox.bottom_y = Resolution.height
    /\ Direction = "move_northwest"

\* C3 (north/west clamp, checked under StepSpec): a call from an in-bounds
\* box heading west whose tentative left_x is negative returns a box with
\* left_x = 0, a call heading north whose tentative top_y is negative
\* returns a box with top_y = 0, and a northwest call crossing both yields
\* direction southeast.
C3_NorthWestClamp ==
    (Called /\ InBounds(call.box, Resolution)) =>
        /\ (~HeadsEast(CallDirection) /\ CrossesWest) =>
               CurrentBox.left_x = 0
        /\ (~HeadsSouth(CallDirection) /\ CrossesNorth) =>
               CurrentBox.top_y = 0
        /\ (CallDirection = "move_northwest" /\ CrossesWest /\ CrossesNorth) =>
               Direction = "move_southeast"

\* The last call's move took the box across an edge of that axis: the box
\* it was given was within the edge and the tentative box is beyond it.
CrossedVertically ==
    \/ call.box.top_y >= 0 /\ CrossesNorth
    \/ call.box.bottom_y <= Resolution.height /\ CrossesSouth
CrossedHorizontally ==
    \/ call.box.left_x >= 0 /\ CrossesWest
    \/ call.box.right_x <= Resolution.width /\ CrossesEast

\* C4 (corner hit, checked under StepSpec): a call whose move crosses an
\* edge on both axes negates both direction components in that same call
\* and signals a flip, which the keywords then carry to the next frame.
C4_CornerHit ==
    (Called /\ CrossedVertically /\ CrossedHorizontally) =>
        /\ Dx(Direction) = -Dx(CallDirection)
        /\ Dy(Direction) = -Dy(CallDirection)
        /\ DictGet(call.ret, "flip", FALSE)
        /\ DictGet(keywords, "flip", FALSE)

\* C4's case: a northeast call crossing the north and the east edge.
C4_Witness ==
    /\ Called
    /\ CallDirection = "move_northeast"
    /\ CrossedVertically /\ CrossedHorizontally
    /\ CrossesNorth /\ CrossesEast
    /\ Direction = "move_southwest"
    /\ DictGet(keywords, "flip", FALSE)

\* C5 (flip signal, checked under StepSpec): a call from an in-bounds box
\* returns flip=True exactly when the direction it leaves in the keywords
\* differs from the direction it was given in its east/west component.
C5_FlipSignal ==
    (Called /\ InBounds(call.box, Resolution)) =>
        (DictGet(call.ret, "flip", FALSE)
            <=> (HeadsEast(Direction) /= HeadsEast(CallDirection)))

\* C5's case: a flip signalled while the vertical component is kept.
C5_Witness ==
    /\ Called
    /\ InBounds(call.box, Resolution)
    /\ DictGet(call.ret, "flip", FALSE)
    /\ HeadsEast(Direction) /= HeadsEast(CallDirection)
    /\ HeadsSouth(Direction) = HeadsSouth(CallDirection)

\* Number of the first n calls that signalled a flip.
RECURSIVE FlipCount(_)
FlipCount(n) == IF n = 0 THEN 0
                ELSE FlipCount(n - 1) + (IF flips[n] THEN 1 ELSE 0)

\* C6 (one mirror per flip event, checked under Spec): frame N >= 1 is drawn
\* with the orientation of frame N-1 mirrored exactly when step N-1
\* signalled a flip, so its orientation is that of frame 0 exactly when the
\* number of flips signalled by steps 0..N-1 is even.  (Frame N is
\* saved[N + 1] and step N is flips[N + 1].)
C6_OneMirrorPerFlip ==
    \A n \in 2..Len(saved) :
        /\ (saved[n].image /= saved[n - 1].image) <=> flips[n - 1]
        /\ (saved[n].image = saved[1].image) <=> (FlipCount(n - 1) % 2 = 0)

\* C6's case: a frame drawn after a step that signalled a flip, and a frame
\* drawn after a step that did not.
C6_Witness ==
    /\ \E n \in 2..Len(saved) :
           flips[n - 1] /\ saved[n].image /= saved[n - 1].image
    /\ \E n \in 2..Len(saved) :
           ~flips[n - 1] /\ saved[n].image = saved[n - 1].image

\* The sprite is not strictly smaller than the canvas, or the centered box
\* reaches outside the canvas.
InvalidConfiguration ==
    \/ args.logo_size.width >= Resolution.width
    \/ args.logo_size.height >= Resolution.height
    \/ ~InBounds(InitialBox(Resolution, args.logo_size), Resolution)

\* C7 (rejection of invalid configurations, checked under Spec): a run with
\* an invalid configuration saves no frame and makes no velocity_update
\* call.
C7_Rejection ==
    InvalidConfiguration => (saved = << >> /\ index = 0)

\* C9 (no mutation of inputs, checked under StepSpec): after a call the
\* object passed as current_image_location holds the coordinates it had
\* before the call, the box returned is another object, and the canvas
\* resolution, the velocity and the swaps tables are as before.
C9_InputsUnchanged ==
    Called =>
        /\ call.kw["current_image_location"] \in DOMAIN heap
        /\ heap[call.kw["current_image_location"]] = call.box
        /\ keywords["current_image_location"] /= call.kw["current_image_location"]
        /\ keywords["frame_resolution"] = call.kw["frame_resolution"]
        /\ keywords["velocity"] = call.kw["velocity"]
        /\ swaps = SwapsTable

\* C9's case: a call that applied a boundary correction.
C9_Witness ==
    /\ Called
    /\ CrossedVertically \/ CrossedHorizontally
    /\ CurrentBox /= Tentative
    /\ heap[call.kw["current_image_location"]] = call.box

\* C10 (sprite size is fixed, checked under Spec): every box has the
\* sprite's width and height.
C10_SizeFixed ==
    \A r \in DOMAIN heap :
        /\ heap[r].right_x - heap[r].left_x = args.logo_size.width
        /\ heap[r].bottom_y - heap[r].top_y = args.logo_size.height

\* C10's case: a box corrected on both axes.
C10_Witness ==
    /\ Called
    /\ CrossedVertically /\ CrossedHorizontally
    /\ CurrentBox.left_x /= Tentative.left_x
    /\ CurrentBox.top_y /= Tentative.top_y
    /\ CurrentBox.right_x - CurrentBox.left_x = args.logo_size.width
    /\ CurrentBox.bottom_y - CurrentBox.top_y = args.logo_size.height

\* C11 (direction validity, checked under Spec): the move function held in
\* the keywords is always one of the four diagonal moves.
C11_DirectionValid ==
    /\ Direction \in MoveFunctions
    /\ Dx(Direction) \in {1, -1}
    /\ Dy(Direction) \in {1, -1}

\* C11's case: a call that changed the direction on both axes.
C11_Witness ==
    /\ Called
    /\ Returned("next_location_velocity")
    /\ Dx(Direction) /= Dx(CallDirection)
    /\ Dy(Direction) /= Dy(CallDirection)
    /\ Direction \in MoveFunctions

\* C12 (single-axis reflection, checked under StepSpec): a call whose move
\* crosses only a north or south edge negates dy, keeps dx and signals no
\* flip; a call whose move crosses only an east or west edge negates dx and
\* keeps dy.
C12_SingleAxis ==
    Called =>
        /\ (CrossedVertically /\ ~CrossedHorizontally) =>
               /\ Dy(Direction) = -Dy(CallDirection)
               /\ Dx(Direction) = Dx(CallDirection)
               /\ ~DictGet(call.ret, "flip", FALSE)
               /\ ~DictGet(keywords, "flip", FALSE)
        /\ (CrossedHorizontally /\ ~CrossedVertically) =>
               /\ Dx(Direction) = -Dx(CallDirection)
               /\ Dy(Direction) = Dy(CallDirection)

\* C12's case: a southeast call crossing the south edge only.
C12_Witness ==
    /\ Called
    /\ CallDirection = "move_southeast"
    /\ CrossedVertically /\ ~CrossedHorizontally
    /\ Direction = "move_northeast"
    /\ ~DictGet(keywords, "flip", FALSE)

\* The tentative box of the last call lies within the canvas.
TentativeWithin == InBounds(Tentative, Resolution)

\* C13 (non-crossing step, checked under StepSpec): when the tentative box
\* lies within the canvas, touching an edge included, the call returns
\* exactly the tentative box, keeps the direction and the four boundary
\* checks, and signals no flip.
C13_NonCrossing ==
    (Called /\ TentativeWithin) =>
        /\ CurrentBox = Tentative
        /\ Direction = CallDirection
        /\ \A key \in {"current_north_south_boundary_crossed",
                       "current_east_west_boundary_crossed",
                       "reverse_north_south_boundary_crossed",
                       "reverse_east_west_boundary_crossed"} :
               keywords[key] = call.kw[key]
        /\ ~DictGet(call.ret, "flip", FALSE)
        /\ "flip" \notin DOMAIN keywords

\* C13's case: a southeast call whose tentative box touches the south and
\* the east edge.
C13_Witness ==
    /\ Called
    /\ CallDirection = "move_southeast"
    /\ Tentative.bottom_y = Resolution.height
    /\ Tentative.right_x = Resolution.width
    /\ CurrentBox = Tentative
    /\ Direction = CallDirection

\* What C16 says of every state: the frames saved are named 0, 1, 2, ... in
\* that order and are at most duration * fps; the stitcher runs at most
\* once, and once it has run exactly duration * fps frames are saved and
\* none is saved afterwards.
C16_Order ==
    /\ \A n \in DOMAIN saved : saved[n].name = n - 1
    /\ Len(saved) <= args.duration * args.fps
    /\ stitched \in {0, 1}
    /\ (stitched = 1) <=> (pc = "done")
    /\ (pc \in {"stitch", "done"}) => Len(saved) = args.duration * args.fps

\* C16 (frame ordering and stitching, checked under FairSpec): the loop
\* terminates after saving exactly duration * fps frames, one per index in
\* increasing order, and the stitcher runs exactly once, after the last
\* frame is saved.
C16_FramesThenStitch ==
    []C16_Order /\ <>(pc = "done" /\ stitched = 1)

\* C16's case: a finished run of several frames.
C16_Witness ==
    /\ pc = "done"
    /\ stitched = 1
    /\ Len(saved) = args.duration * args.fps
    /\ Len(saved) >= 3

\* The check of the edge ahead on each axis, and of the edge behind.
CheckAheadVertical(move) ==
    IF HeadsSouth(move) THEN "passes_south_boundary" ELSE "passes_north_boundary"
CheckAheadHorizontal(move) ==
    IF HeadsEast(move) THEN "passes_east_boundary" ELSE "passes_west_boundary"
CheckBehindVertical(move) ==
    IF HeadsSouth(move) THEN "passes_north_boundary" ELSE "passes_south_boundary"
CheckBehindHorizontal(move) ==
    IF HeadsEast(move) THEN "passes_west_boundary" ELSE "passes_east_boundary"

\* C17 (checks match the direction, checked under Spec): the current_*
\* checks are those of the edges the move function heads to, and the
\* reverse_* checks those of the opposite edges.
C17_ChecksMatchDirection ==
    /\ keywords["current_north_south_boundary_crossed"]
           = CheckAheadVertical(Direction)
    /\ keywords["current_east_west_boundary_crossed"]
           = CheckAheadHorizontal(Direction)
    /\ keywords["reverse_north_south_boundary_crossed"]
           = CheckBehindVertical(Direction)
    /\ keywords["reverse_east_west_boundary_crossed"]
           = CheckBehindHorizontal(Direction)

\* C17's case: the direction has been reversed on both axes and heads
\* northwest.
C17_Witness ==
    /\ Called
    /\ Direction = "move_northwest"
    /\ keywords["current_north_south_boundary_crossed"] = "passes_north_boundary"
    /\ keywords["current_east_west_boundary_crossed"] = "passes_west_boundary"
    /\ keywords["reverse_north_south_boundary_crossed"] = "passes_south_boundary"
    /\ keywords["reverse_east_west_boundary_crossed"] = "passes_east_boundary"

\* C18 (orientation tracks the horizontal direction, checked under Spec):
\* when a frame has just been drawn, the sprite drawn is the mirrored logo
\* exactly when the direction heads east (and the loaded logo exactly when
\* it heads west).
C18_OrientationTracksDirection ==
    (pc = "update") =>
        /\ saved[Len(saved)].image = logo_image
        /\ (logo_image = "mirrored") <=> HeadsEast(Direction)
        /\ (logo_image = "loaded") <=> ~HeadsEast(Direction)

\* C18's case: a frame drawn heading west after a frame drawn heading east.
C18_Witness ==
    /\ pc = "update"
    /\ Len(saved) >= 2
    /\ ~HeadsEast(Direction)
    /\ saved[Len(saved)].image = "loaded"
    /\ saved[Len(saved) - 1].image = "mirrored"

\* The edge the tentative box of call n lay beyond, on each axis.
HorizontalEdge(n) ==
    IF history[n].tentative.right_x > Resolution.width THEN "east"
    ELSE IF history[n].tentative.left_x < 0 THEN "west"
    ELSE "none"
VerticalEdge(n) ==
    IF history[n].tentative.bottom_y > Resolution.height THEN "south"
    ELSE IF history[n].tentative.top_y < 0 THEN "north"
    ELSE "none"

\* Call n reversed the direction on that axis.
ReflectedHorizontally(n) ==
    HeadsEast(history[n].before) /= HeadsEast(history[n].after)
ReflectedVertically(n) ==
    HeadsSouth(history[n].before) /= HeadsSouth(history[n].after)

\* C19 (reflections alternate edges, checked under Spec): with a sprite
\* strictly smaller than the canvas, a positive velocity and the centered
\* start, every reflection is off an edge the tentative box lies beyond, and
\* two consecutive reflections on an axis are off opposite edges of it.
C19_AlternateEdges ==
    (SpriteSmaller /\ args.velocity > 0) =>
        /\ \A n \in DOMAIN history :
               /\ ReflectedHorizontally(n) => HorizontalEdge(n) /= "none"
               /\ ReflectedVertically(n) => VerticalEdge(n) /= "none"
        /\ \A m, n \in DOMAIN history :
               (/\ m < n
                /\ ReflectedHorizontally(m) /\ ReflectedHorizontally(n)
                /\ \A k \in (m + 1)..(n - 1) : ~ReflectedHorizontally(k))
                   => HorizontalEdge(m) /= HorizontalEdge(n)
        /\ \A m, n \in DOMAIN history :
               (/\ m < n
                /\ ReflectedVertically(m) /\ ReflectedVertically(n)
                /\ \A k \in (m + 1)..(n - 1) : ~ReflectedVertically(k))
                   => VerticalEdge(m) /= VerticalEdge(n)

\* C19's case: a run reflected off the east edge and later off the west
\* edge, and off the south edge and later off the north edge.
C19_Witness ==
    /\ SpriteSmaller
    /\ \E m, n \in DOMAIN history :
           /\ m < n
           /\ ReflectedHorizontally(m) /\ HorizontalEdge(m) = "east"
           /\ ReflectedHorizontally(n) /\ HorizontalEdge(n) = "west"
    /\ \E m, n \in DOMAIN history :
           /\ m < n
           /\ ReflectedVertically(m) /\ VerticalEdge(m) = "south"
           /\ ReflectedVertically(n) /\ VerticalEdge(n) = "north"

\* C14 (containment in main.py, checked under MainPySpec): with a sprite
\* strictly smaller than the canvas and the centered start, every pasted
\* position keeps the sprite inside the canvas.
C14_MainPyContainment ==
    (/\ args.logo_size.width < main_py_resolution.width
     /\ args.logo_size.height < main_py_resolution.height) =>
        \A n \in DOMAIN saved :
            /\ saved[n].x >= 0
            /\ saved[n].y >= 0
            /\ saved[n].x + args.logo_size.width <= main_py_resolution.width
            /\ saved[n].y + args.logo_size.height <= main_py_resolution.height

\* The move of the last look-ahead, made in the direction held before it,
\* would take the sprite beyond an edge of that axis.
LookCrossesHorizontally ==
    IF HeadsEast(look.move)
    THEN look.x + args.logo_size.width + args.velocity > main_py_resolution.width
    ELSE look.x - args.velocity < 0
LookCrossesVertically ==
    IF HeadsSouth(look.move)
    THEN look.y + args.logo_size.height + args.velocity > main_py_resolution.height
    ELSE look.y - args.velocity < 0

\* C15 (reflection axis in main.py, checked under MainPySpec): when a
\* look-ahead test reports a crossing, the direction chosen for the move is
\* the one held before with only dx negated if the edge ahead is the east or
\* west one, and with only dy negated if it is the north or south one.
C15_MainPyReflectionAxis ==
    (index > 0 /\ look.fired /= "none") =>
        /\ (LookCrossesHorizontally /\ ~LookCrossesVertically) =>
               /\ Dx(current_move_function) = -Dx(look.move)
               /\ Dy(current_move_function) = Dy(look.move)
        /\ (LookCrossesVertically /\ ~LookCrossesHorizontally) =>
               /\ Dy(current_move_function) = -Dy(look.move)
               /\ Dx(current_move_function) = Dx(look.move)

====
